---- MODULE Spec2Model ----
(***************************************************************************)
(* A model of twitter.js' SearchTweetsBook (src/src/books/                 *)
(* SearchTweetsBook.ts) and of the Client's login methods, createBook and  *)
(* two stream consumers (the Client class appended to src/package.json).   *)
(*                                                                         *)
(* An optional JavaScript value is modelled as a sequence of length 0 or   *)
(* 1: << >> is null / undefined, << v >> is the value v.                   *)
(***************************************************************************)
EXTENDS Integers, Sequences, FiniteSets, TLC

\* ------------------------------------------------------------------ bounds
\* The number of fetchNextPage calls a behaviour makes.
MaxCalls == 3
\* The number of raw tweets a page response carries at most.
MaxPage == 2
\* The number of calls a caller who does not await them has pending at most.
MaxInflight == 2
\* The number of lines a stream connection delivers.
MaxLines == 2
\* The number of login and loginWithBearerToken calls made on a client.
MaxLogins == 2
\* The number of chunks the client's stream connections deliver.
MaxChunks == 1

\* ------------------------------------------------------------ JS values
Null == << >>
Undefined == << >>
Some(v) == << v >>

\* ToBoolean of an optional string: undefined, null and "" are falsy.
TruthyStr(v) == v # << >> /\ v[1] # ""
\* ToBoolean of an optional number: undefined, null and 0 are falsy.
TruthyNum(v) == v # << >> /\ v[1] # 0

\* The continuation tokens the API hands out: opaque, non-empty strings.
Tokens == {"t1", "t2"}
\* The tweet ids of the raw tweets of a page.
TweetIds == {"1", "2"}
\* The values the caller may give the options (SearchTweetsBookOptions).
QueryValues == {Some("rust")}
\* The query of the options createBook is called with: createBook takes any
\* object, so the query may be missing.
CreateBookQueryValues == {Undefined, Some("rust")}
SnowflakeValues == {Null, Some(""), Some("100")}
MaxResultsValues == {Null, Some(0), Some(10)}
TimestampValues == {Null, Some(0), Some(86461001)}

\* new Date(ms).toISOString() for a time of the year 1970, as the fields
\* <<year, month, day, hour, minute, second, millisecond>> of the string
\* YYYY-MM-DDTHH:mm:ss.sssZ.
DaysBefore == <<0, 31, 59, 90, 120, 151, 181, 212, 243, 273, 304, 334, 365>>
toISOString(ms) ==
  LET days == ms \div 86400000
      rest == ms % 86400000
      month == CHOOSE m \in 1..12 : DaysBefore[m] <= days /\ days < DaysBefore[m + 1]
  IN  << 1970, month, days - DaysBefore[month] + 1,
         rest \div 3600000, (rest \div 60000) % 60, (rest \div 1000) % 60, rest % 1000 >>

\* ---------------------------------------------------------------- state
VARIABLES
  \* the book (SearchTweetsBook)
  hasMadeInitialRequest, nextToken, hasMore,
  query, afterTweetId, beforeTweetId, maxResultsPerPage,
  startTimestamp, endTimestamp,
  \* the caller's discipline: "awaits" every call, or "overlaps" them
  caller,
  \* the transport: the requests of fetchNextPage calls that await their response
  pending,
  \* client.tweets, the tweet cache
  tweets,
  \* what the caller has seen
  nCalls,          \* fetchNextPage calls made
  lastResult,      \* how the latest completed call ended
  sentTokens,      \* the next_token of every request issued, in order
  answered,        \* <<token sent, next_token received>> of every resolved request
  nTail,           \* calls that failed with PAGINATED_RESPONSE_TAIL_REACHED
  \* a stream connection (#connectToFilteredStream, #connectToSampledStream)
  streamKind,      \* "filtered" or "sampled"; "none": no connection
  body,            \* the text the connection delivers, as a sequence of symbols
  pos,             \* how much of body the transport has delivered
  events,          \* the tweet ids of the events emitted, in order
  \* the client (Client)
  token, credentials, readyAt, me,
  clientEvents,    \* options.events
  calls,           \* the login and loginWithBearerToken calls made, in order
  connecting,      \* the stream requests of each kind that await their response
  open,            \* the open stream connections of each kind
  nChunks,         \* the chunks the open connections have delivered
  log              \* the events emitted and the stream requests issued, in order

options == << query, afterTweetId, beforeTweetId, maxResultsPerPage,
              startTimestamp, endTimestamp >>
cursor == << hasMadeInitialRequest, nextToken, hasMore >>
history == << nCalls, lastResult, sentTokens, answered, nTail >>
stream == << streamKind, body, pos, events >>
client == << token, credentials, readyAt, me, clientEvents, calls, connecting,
             open, nChunks, log >>
vars == << options, cursor, caller, pending, tweets, history, stream, client >>

\* The cursor as the record the caller's view keeps of it.
Cursor == [ hasMadeInitialRequest |-> hasMadeInitialRequest,
            nextToken |-> nextToken, hasMore |-> hasMore ]

\* How a fetchNextPage call ended: kind is "none" (no call yet), "pending" (the
\* call awaits its response), "page" (it returned the collection page) or
\* "error" (it threw error); before is the cursor when the call was made and
\* response the response of its transport call, if that resolved.
Result(kind, error, page, before, response) ==
  [ kind |-> kind, error |-> error, page |-> page, before |-> before,
    response |-> response ]

\* The responses of GET /2/tweets/search/recent: meta.next_token is absent on
\* the last page; data is absent when nothing matched, and a response with a
\* positive result_count and no data is malformed.
Pages == UNION { [1..n -> TweetIds] : n \in 1..MaxPage }
Responses ==
  { [ meta |-> [ next_token |-> t, result_count |-> Len(d) ], data |-> Some(d) ] :
      t \in {Undefined} \cup { Some(k) : k \in Tokens }, d \in Pages }
  \cup
  { [ meta |-> [ next_token |-> t, result_count |-> c ], data |-> Undefined ] :
      t \in {Undefined} \cup { Some(k) : k \in Tokens }, c \in {0, 1} }

\* The same responses over one more tweet id and two more raw tweets a page,
\* for a book that is followed for its pages only.
WideTweetIds == TweetIds \cup {"3"}
WidePages == UNION { [1..n -> WideTweetIds] : n \in 1..(MaxPage + 2) }
WideResponses ==
  { [ meta |-> [ next_token |-> t, result_count |-> Len(d) ], data |-> Some(d) ] :
      t \in {Undefined} \cup { Some(k) : k \in Tokens }, d \in WidePages }
  \cup
  { [ meta |-> [ next_token |-> t, result_count |-> c ], data |-> Undefined ] :
      t \in {Undefined} \cup { Some(k) : k \in Tokens }, c \in {0, 1} }

\* The event categories a client can be asked to deliver.
Categories == {"FILTERED_TWEET_CREATE", "SAMPLED_TWEET_CREATE"}
StreamKinds == {"filtered", "sampled"}

\* new Client(options), for options whose events is one of eventsSets: no
\* login call has been made and no stream is open.
ClientConstructor(eventsSets) ==
  /\ token = Null
  /\ credentials = Null
  /\ me = Null
  /\ readyAt = Null
  /\ clientEvents \in eventsSets
  /\ calls = << >>
  /\ connecting = [ k \in StreamKinds |-> 0 ]
  /\ open = [ k \in StreamKinds |-> 0 ]
  /\ nChunks = 0
  /\ log = << >>

\* The client of a book or of a single stream connection that is looked at
\* alone: it asks for no event from its login calls, and makes none.
NoLogin == ClientConstructor({{}})

\* constructor(client, options), for options whose query is one of queries.
constructor(queries) ==
  /\ hasMadeInitialRequest = FALSE
  /\ nextToken = Undefined
  /\ hasMore = TRUE
  /\ query \in queries
  /\ afterTweetId \in SnowflakeValues
  /\ beforeTweetId \in SnowflakeValues
  /\ maxResultsPerPage \in MaxResultsValues
  /\ startTimestamp \in TimestampValues
  /\ endTimestamp \in TimestampValues
  /\ pending = << >>
  /\ tweets = {}
  /\ nCalls = 0
  /\ lastResult = Result("none", "", << >>, [ hasMadeInitialRequest |-> FALSE,
                                               nextToken |-> Undefined,
                                               hasMore |-> TRUE ], << >>)
  /\ sentTokens = << >>
  /\ answered = << >>
  /\ nTail = 0

\* A book constructed with the options its type asks for.
InitBook == constructor(QueryValues)

NoStream ==
  /\ streamKind = "none"
  /\ body = << >>
  /\ pos = 0
  /\ events = << >>

\* A book whose caller awaits every call.
Init ==
  /\ InitBook
  /\ caller = "awaits"
  /\ NoStream
  /\ NoLogin

\* A book whose caller does not await a call before the next.
InitOverlap ==
  /\ InitBook
  /\ caller = "overlaps"
  /\ NoStream
  /\ NoLogin

\* A book constructed without range bounds, whose caller awaits every call.
InitPlain ==
  /\ Init
  /\ afterTweetId = Null /\ beforeTweetId = Null /\ maxResultsPerPage = Null
  /\ startTimestamp = Null /\ endTimestamp = Null

\* createBook('SearchTweetsBook', options): new Books[bookName](this, options),
\* for any options without range bounds; the caller awaits every call.
createBook ==
  /\ constructor(CreateBookQueryValues)
  /\ afterTweetId = Null /\ beforeTweetId = Null /\ maxResultsPerPage = Null
  /\ startTimestamp = Null /\ endTimestamp = Null
  /\ caller = "awaits"
  /\ NoStream
  /\ NoLogin

\* ------------------------------------------------------- fetchNextPage
\* A #fetchPages that forgets the continuation parameter.
fetchPagesQuery_NoToken(pageToken) ==
  [ query      |-> query,
    next_token |-> Undefined,
    since_id   |-> IF TruthyStr(afterTweetId) THEN afterTweetId ELSE Undefined,
    until_id   |-> IF TruthyStr(beforeTweetId) THEN beforeTweetId ELSE Undefined,
    max_results |-> IF TruthyNum(maxResultsPerPage) THEN maxResultsPerPage ELSE Undefined,
    start_time |-> IF TruthyNum(startTimestamp)
                   THEN Some(toISOString(startTimestamp[1])) ELSE Undefined,
    end_time   |-> IF TruthyNum(endTimestamp)
                   THEN Some(toISOString(endTimestamp[1])) ELSE Undefined ]

\* The query #fetchPages builds for the page after pageToken.
fetchPagesQuery(pageToken) ==
  [ query      |-> query,
    next_token |-> pageToken,
    since_id   |-> IF TruthyStr(afterTweetId) THEN afterTweetId ELSE Undefined,
    until_id   |-> IF TruthyStr(beforeTweetId) THEN beforeTweetId ELSE Undefined,
    max_results |-> IF TruthyNum(maxResultsPerPage) THEN maxResultsPerPage ELSE Undefined,
    start_time |-> IF TruthyNum(startTimestamp)
                   THEN Some(toISOString(startTimestamp[1])) ELSE Undefined,
    end_time   |-> IF TruthyNum(endTimestamp)
                   THEN Some(toISOString(endTimestamp[1])) ELSE Undefined ]

\* A fetchNextPage without its guard.
TailReached_Never == FALSE

\* if (!this._nextToken) throw new CustomError('PAGINATED_RESPONSE_TAIL_REACHED')
TailReached == ~TruthyStr(nextToken)

\* #fetchPages(token) up to its await: the request goes to the transport, which
\* keeps with it the cursor of the call and how many responses the book had
\* seen when the call was made.
Send(pageToken) ==
  /\ pending' = Append(pending, [ request |-> fetchPagesQuery(pageToken), before |-> Cursor,
                                  seen |-> Len(answered) ])
  /\ sentTokens' = Append(sentTokens, fetchPagesQuery(pageToken).next_token)
  /\ lastResult' = Result("pending", "", << >>, Cursor, << >>)
  /\ UNCHANGED << nextToken, hasMore, options, caller, tweets, answered, nTail, stream, client >>

\* The calls the caller may make now.
CallAllowed ==
  /\ nCalls < MaxCalls
  /\ Len(pending) < (IF caller = "awaits" THEN 1 ELSE MaxInflight)

\* A fetchNextPage that starts the book over once it has thrown.
FetchNextPage_ResetOnTail ==
  /\ CallAllowed
  /\ nCalls' = nCalls + 1
  /\ \/ /\ ~hasMadeInitialRequest
        /\ hasMadeInitialRequest' = TRUE
        /\ Send(Undefined)
     \/ /\ hasMadeInitialRequest
        /\ TailReached
        /\ lastResult' = Result("error", "PAGINATED_RESPONSE_TAIL_REACHED", << >>,
                                Cursor, << >>)
        /\ nTail' = nTail + 1
        /\ hasMadeInitialRequest' = FALSE
        /\ UNCHANGED << nextToken, hasMore, options, caller, pending, tweets,
                        sentTokens, answered, stream, client >>
     \/ /\ hasMadeInitialRequest
        /\ ~TailReached
        /\ UNCHANGED hasMadeInitialRequest
        /\ Send(nextToken)

\* fetchNextPage(), up to the await of the transport call or to its throw.
FetchNextPage ==
  /\ CallAllowed
  /\ nCalls' = nCalls + 1
  /\ \/ /\ ~hasMadeInitialRequest
        /\ hasMadeInitialRequest' = TRUE
        /\ Send(Undefined)
     \/ /\ hasMadeInitialRequest
        /\ TailReached
        /\ lastResult' = Result("error", "PAGINATED_RESPONSE_TAIL_REACHED", << >>,
                                Cursor, << >>)
        /\ nTail' = nTail + 1
        /\ UNCHANGED << cursor, options, caller, pending, tweets, sentTokens, answered, stream, client >>
     \/ /\ hasMadeInitialRequest
        /\ ~TailReached
        /\ UNCHANGED hasMadeInitialRequest
        /\ Send(nextToken)

\* A collection that moves a key that is set again to the end.
RECURSIVE Collect_LastWins(_)
Collect_LastWins(rawTweets) ==
  IF rawTweets = << >> THEN << >>
  ELSE LET rest == Collect_LastWins(Tail(rawTweets))
       IN  IF \E i \in 1..Len(rest) : rest[i] = Head(rawTweets) THEN rest
           ELSE << Head(rawTweets) >> \o rest

\* tweetsCollection after set(tweet.id, tweet) for every raw tweet: a Collection
\* (a Map) keeps one entry per key, at the place of the key's first set.
RECURSIVE Collect(_)
Collect(rawTweets) ==
  IF rawTweets = << >> THEN << >>
  ELSE LET front == Collect(SubSeq(rawTweets, 1, Len(rawTweets) - 1))
           last == rawTweets[Len(rawTweets)]
       IN  IF \E i \in 1..Len(front) : front[i] = last THEN front
           ELSE Append(front, last)

\* A #fetchPages that derives hasMore from the token it held before.
fetchPagesResolve_StaleHasMore(data) ==
  [ nextToken |-> data.meta.next_token,
    hasMore   |-> TruthyStr(nextToken),
    kind      |-> IF data.meta.result_count = 0 THEN "page"
                  ELSE IF data.data = Undefined THEN "error" ELSE "page",
    error     |-> IF data.meta.result_count # 0 /\ data.data = Undefined
                  THEN "TypeError" ELSE "",
    page      |-> IF data.meta.result_count = 0 \/ data.data = Undefined THEN << >>
                  ELSE Collect(data.data[1]) ]

\* A #fetchPages that returns on an empty page before it stores the cursor.
fetchPagesResolve_EarlyReturn(data) ==
  [ nextToken |-> IF data.meta.result_count = 0 THEN nextToken ELSE data.meta.next_token,
    hasMore   |-> IF data.meta.result_count = 0 THEN hasMore
                  ELSE TruthyStr(data.meta.next_token),
    kind      |-> IF data.meta.result_count = 0 THEN "page"
                  ELSE IF data.data = Undefined THEN "error" ELSE "page",
    error     |-> IF data.meta.result_count # 0 /\ data.data = Undefined
                  THEN "TypeError" ELSE "",
    page      |-> IF data.meta.result_count = 0 \/ data.data = Undefined THEN << >>
                  ELSE Collect(data.data[1]) ]

\* A #fetchPages that reads a missing data as no tweets (data.data ?? []).
fetchPagesResolve_MissingAsEmpty(data) ==
  [ nextToken |-> data.meta.next_token,
    hasMore   |-> TruthyStr(data.meta.next_token),
    kind      |-> "page",
    error     |-> "",
    page      |-> IF data.meta.result_count = 0 \/ data.data = Undefined THEN << >>
                  ELSE Collect(data.data[1]) ]

\* #fetchPages from the resolution of the transport call on: the cursor it
\* stores, and the page it returns or the error it throws.
fetchPagesResolve(data) ==
  [ nextToken |-> data.meta.next_token,
    hasMore   |-> TruthyStr(data.meta.next_token),
    kind      |-> IF data.meta.result_count = 0 THEN "page"
                  ELSE IF data.data = Undefined THEN "error" ELSE "page",
    error     |-> IF data.meta.result_count # 0 /\ data.data = Undefined
                  THEN "TypeError" ELSE "",
    page      |-> IF data.meta.result_count = 0 \/ data.data = Undefined THEN << >>
                  ELSE Collect(data.data[1]) ]

\* this.client.tweets._add(rawTweet.id, ...) for every raw tweet of the page.
tweetsAdd(cache, data) ==
  IF data.meta.result_count = 0 \/ data.data = Undefined THEN cache
  ELSE cache \cup { data.data[1][i] : i \in 1..Len(data.data[1]) }

Remove(seq, i) == SubSeq(seq, 1, i - 1) \o SubSeq(seq, i + 1, Len(seq))

\* The transport call of a pending request resolves with a response of S.
ResolveOf(S) ==
  \E i \in 1..Len(pending), data \in S :
    LET out == fetchPagesResolve(data) IN
    /\ nextToken' = out.nextToken
    /\ hasMore' = out.hasMore
    /\ tweets' = tweetsAdd(tweets, data)
    /\ lastResult' = Result(out.kind, out.error, out.page, pending[i].before, Some(data))
    /\ answered' = Append(answered, << pending[i].request.next_token, data.meta.next_token >>)
    /\ pending' = Remove(pending, i)
    /\ UNCHANGED << hasMadeInitialRequest, options, caller, nCalls, sentTokens, nTail, stream, client >>

\* The transport call of a pending request rejects: the error propagates
\* unchanged out of fetchNextPage.
Reject ==
  \E i \in 1..Len(pending) :
    /\ lastResult' = Result("error", "TransportFailure", << >>, pending[i].before, << >>)
    /\ pending' = Remove(pending, i)
    /\ UNCHANGED << cursor, options, caller, tweets, nCalls, sentTokens, answered, nTail, stream, client >>

\* The transport call of a pending request resolves with a response.
Resolve == ResolveOf(Responses)

\* The same, with a response of the wider pages.
ResolveWide == ResolveOf(WideResponses)

Next ==
  \/ FetchNextPage
  \/ Resolve
  \/ Reject

\* The caller awaits every call: no call is made while another is pending.
Spec == Init /\ [][Next]_vars

\* The caller makes calls while others are pending.
SpecOverlap == InitOverlap /\ [][Next]_vars

NextPage ==
  \/ FetchNextPage
  \/ ResolveWide
  \/ Reject

\* A book without range bounds, awaited calls, and the wider pages.
SpecPage == InitPlain /\ [][NextPage]_vars

\* A book made by createBook, awaited calls.
SpecCreateBook == createBook /\ [][Next]_vars

\* ------------------------------------------------------ stream consumers
\* The text of a stream, in symbols: "{" id "}" is a tweet record
\* {"data":{"id":id}}, "{" id "R" "}" one that has matching_rules too, "x" is
\* text that is not JSON and "NL" is the line terminator.
RecordLines ==
  { << "{", i, "}" >> : i \in TweetIds } \cup { << "{", i, "R", "}" >> : i \in TweetIds }
\* The lines the API sends: records, blank keep-alive lines, and damaged text.
Lines == RecordLines \cup { << >>, << "x" >> }

RECURSIVE BodiesOf(_)
BodiesOf(n) ==
  IF n = 0 THEN { << >> }
  ELSE { l \o << "NL" >> \o b : l \in Lines, b \in BodiesOf(n - 1) }
\* The texts of 1..MaxLines terminated lines.
Bodies == UNION { BodiesOf(n) : n \in 1..MaxLines }

\* The connection is open and the 'data' handler is registered.
InitStream ==
  /\ InitBook
  /\ afterTweetId = Null /\ beforeTweetId = Null /\ maxResultsPerPage = Null
  /\ startTimestamp = Null /\ endTimestamp = Null
  /\ caller = "awaits"
  /\ streamKind \in {"filtered", "sampled"}
  /\ body \in Bodies
  /\ pos = 0
  /\ events = << >>
  /\ NoLogin

\* JSON.parse skips the white space around the value.
RECURSIVE Trim(_)
Trim(text) ==
  IF text = << >> THEN text
  ELSE IF Head(text) = "NL" THEN Trim(Tail(text))
  ELSE IF text[Len(text)] = "NL" THEN Trim(SubSeq(text, 1, Len(text) - 1))
  ELSE text

\* JSON.parse(chunk): the value, or ok = FALSE for a SyntaxError.
JSONParse(chunk) ==
  LET t == Trim(chunk) IN
  IF t \in RecordLines
  THEN [ ok |-> TRUE, id |-> t[2], matching_rules |-> Len(t) = 4 ]
  ELSE [ ok |-> FALSE, id |-> "", matching_rules |-> FALSE ]

\* The 'data' handler of the stream kind on one chunk: the tweet ids it adds
\* to the cache and the events it emits. The catch block swallows the
\* SyntaxError of JSON.parse and, in the filtered stream, the TypeError of
\* rawData.matching_rules.reduce on a record without matching_rules, which is
\* thrown after this.tweets._add.
onData(kind, chunk) ==
  LET raw == JSONParse(chunk) IN
  IF ~raw.ok THEN [ added |-> {}, emitted |-> << >> ]
  ELSE IF kind = "filtered" /\ ~raw.matching_rules
       THEN [ added |-> {raw.id}, emitted |-> << >> ]
       ELSE [ added |-> {raw.id}, emitted |-> << raw.id >> ]

\* The transport delivers the next chunk, of any length, to the handler.
Deliver ==
  \E k \in 1..(Len(body) - pos) :
    LET out == onData(streamKind, SubSeq(body, pos + 1, pos + k)) IN
    /\ pos' = pos + k
    /\ tweets' = tweets \cup out.added
    /\ events' = events \o out.emitted
    /\ UNCHANGED << options, cursor, caller, pending, history, streamKind, body, client >>

NextStream == Deliver

SpecStream == InitStream /\ [][NextStream]_vars

\* The lines of a text: the pieces its terminators end.
RECURSIVE LinesOf(_, _)
LinesOf(text, line) ==
  IF text = << >> THEN << >>
  ELSE IF Head(text) = "NL" THEN << line >> \o LinesOf(Tail(text), << >>)
  ELSE LinesOf(Tail(text), Append(line, Head(text)))

\* The events of a consumer that hands the handler one line at a time.
RECURSIVE EventsByLine(_, _)
EventsByLine(kind, lines) ==
  IF lines = << >> THEN << >>
  ELSE onData(kind, Head(lines)).emitted \o EventsByLine(kind, Tail(lines))

\* ---------------------------------------------------------------- login
\* The arguments the login calls are made with, as <<typeof, value>>.
BearerTokenArgs ==
  { << "string", "tokA" >>, << "string", "tokB" >>, << "number", "42" >>,
    << "undefined", "" >> }
CredentialsArgs ==
  { << "object", "credsA" >>, << "object", "credsB" >>, << "string", "tokA" >> }
typeof(v) == v[1]
\* this.credentials.bearerToken
bearerToken(creds) == IF creds = "credsA" THEN "tokA" ELSE "tokB"
\* The users GET /2/users/me answers with.
Users == {"u1"}
\* The chunks a connection delivers to the 'data' handler: one line each.
Chunks == { l \o << "NL" >> : l \in Lines }

\* The fields of the client a login call sets.
Fields == [ token |-> token, credentials |-> credentials, readyAt |-> readyAt,
            me |-> me ]

\* A login call: result is "pending" (it awaits users.me), "ok" (it returned)
\* or the error it threw; before holds the client's fields when it was made.
Call(method, arg, result) ==
  [ method |-> method, arg |-> arg, result |-> result, before |-> Fields ]

\* An entry of the log: an event emitted ("ready", with the fields of the
\* client the listener is handed; a tweet event, with the tweet id as detail)
\* or a stream request issued ("connect", with the stream kind as detail).
\* call is the login call it belongs to.
Entry(type, detail, call, tok, at, user) ==
  [ type |-> type, detail |-> detail, call |-> call, token |-> tok,
    readyAt |-> at, me |-> user ]

\* The kinds of the stream requests a login call issues, in order.
connectToStreams ==
  (IF "FILTERED_TWEET_CREATE" \in clientEvents THEN << "filtered" >> ELSE << >>)
  \o (IF "SAMPLED_TWEET_CREATE" \in clientEvents THEN << "sampled" >> ELSE << >>)

ConnectEntries(call) ==
  [ i \in 1..Len(connectToStreams) |->
      Entry("connect", connectToStreams[i], call, Null, Null, Null) ]

\* The requests that await their response once a login call has issued its own.
Connecting ==
  [ k \in StreamKinds |->
      connecting[k] + (IF \E i \in 1..Len(connectToStreams) : connectToStreams[i] = k
                       THEN 1 ELSE 0) ]

\* A login that connects to the streams before it emits ready.
afterLogin_ConnectFirst(call, tok, at, user) ==
  ConnectEntries(call) \o << Entry("ready", "", call, tok, at, user) >>

\* What both login methods do once the client is set up: this.emit(READY,
\* this), then the #connectTo...Stream calls, each up to its await.
afterLogin(call, tok, at, user) ==
  << Entry("ready", "", call, tok, at, user) >> \o ConnectEntries(call)

\* The caller awaits every login call; stream requests may still be pending.
LoginAllowed ==
  /\ Len(calls) < MaxLogins
  /\ IF calls = << >> THEN TRUE ELSE calls[Len(calls)].result # "pending"

\* A loginWithBearerToken that stores the token before it checks its type.
loginWithBearerToken_LateCheck ==
  /\ LoginAllowed
  /\ \E arg \in BearerTokenArgs :
       /\ token' = Some(arg[2])
       /\ IF typeof(arg) # "string"
          THEN /\ calls' = Append(calls, Call("loginWithBearerToken", arg, "INVALID_TYPE"))
               /\ UNCHANGED << readyAt, connecting, log >>
          ELSE /\ readyAt' = Some(Len(calls) + 1)
               /\ calls' = Append(calls, Call("loginWithBearerToken", arg, "ok"))
               /\ log' = log \o afterLogin(Len(calls) + 1, token', readyAt', me)
               /\ connecting' = Connecting
  /\ UNCHANGED << credentials, me, clientEvents, open, nChunks >>
  /\ UNCHANGED << options, cursor, caller, pending, tweets, history, stream >>

\* loginWithBearerToken(token): it has no await, so it runs to its end in one
\* step. readyAt is the time of the call, counted in login calls.
loginWithBearerToken ==
  /\ LoginAllowed
  /\ \E arg \in BearerTokenArgs :
       IF typeof(arg) # "string"
       THEN /\ calls' = Append(calls, Call("loginWithBearerToken", arg, "INVALID_TYPE"))
            /\ UNCHANGED << token, readyAt, connecting, log >>
       ELSE /\ token' = Some(arg[2])
            /\ readyAt' = Some(Len(calls) + 1)
            /\ calls' = Append(calls, Call("loginWithBearerToken", arg, "ok"))
            /\ log' = log \o afterLogin(Len(calls) + 1, token', readyAt', me)
            /\ connecting' = Connecting
  /\ UNCHANGED << credentials, me, clientEvents, open, nChunks >>
  /\ UNCHANGED << options, cursor, caller, pending, tweets, history, stream >>

\* login(credentials), up to the await of #fetchClientUser or to its throw.
login ==
  /\ LoginAllowed
  /\ \E arg \in CredentialsArgs :
       IF typeof(arg) # "object"
       THEN /\ calls' = Append(calls, Call("login", arg, "INVALID_TYPE"))
            /\ UNCHANGED << token, credentials, readyAt >>
       ELSE /\ credentials' = Some(arg[2])
            /\ token' = Some(bearerToken(arg[2]))
            /\ readyAt' = Some(Len(calls) + 1)
            /\ calls' = Append(calls, Call("login", arg, "pending"))
  /\ UNCHANGED << me, clientEvents, connecting, open, nChunks, log >>
  /\ UNCHANGED << options, cursor, caller, pending, tweets, history, stream >>

\* users.me resolves: login goes on from its await with the ClientUser made
\* of the response, which is an object and so never falsy.
fetchClientUserResolve ==
  /\ calls # << >>
  /\ calls[Len(calls)].result = "pending"
  /\ \E user \in Users :
       /\ me' = Some(user)
       /\ IF me' = Null
          THEN /\ calls' = [ calls EXCEPT ![Len(calls)].result = "USER_CONTEXT_LOGIN_ERROR" ]
               /\ UNCHANGED << connecting, log >>
          ELSE /\ calls' = [ calls EXCEPT ![Len(calls)].result = "ok" ]
               /\ log' = log \o afterLogin(Len(calls), token, readyAt, me')
               /\ connecting' = Connecting
  /\ UNCHANGED << token, credentials, readyAt, clientEvents, open, nChunks >>
  /\ UNCHANGED << options, cursor, caller, pending, tweets, history, stream >>

\* users.me rejects: the error propagates out of login at its await.
fetchClientUserReject ==
  /\ calls # << >>
  /\ calls[Len(calls)].result = "pending"
  /\ calls' = [ calls EXCEPT ![Len(calls)].result = "rejected" ]
  /\ UNCHANGED << token, credentials, readyAt, me, clientEvents, connecting, open,
                  nChunks, log >>
  /\ UNCHANGED << options, cursor, caller, pending, tweets, history, stream >>

\* A stream request resolves: with a body, the 'data' handler is registered on
\* it; without one, the method throws and no handler is registered.
connectToStreamResolve ==
  /\ \E kind \in StreamKinds, hasBody \in BOOLEAN :
       /\ connecting[kind] > 0
       /\ connecting' = [ connecting EXCEPT ![kind] = @ - 1 ]
       /\ IF hasBody
          THEN open' = [ open EXCEPT ![kind] = @ + 1 ]
          ELSE UNCHANGED open
  /\ UNCHANGED << token, credentials, readyAt, me, clientEvents, calls, nChunks, log >>
  /\ UNCHANGED << options, cursor, caller, pending, tweets, history, stream >>

\* A stream request rejects: the method throws at its await.
connectToStreamReject ==
  /\ \E kind \in StreamKinds :
       /\ connecting[kind] > 0
       /\ connecting' = [ connecting EXCEPT ![kind] = @ - 1 ]
  /\ UNCHANGED << token, credentials, readyAt, me, clientEvents, calls, open, nChunks, log >>
  /\ UNCHANGED << options, cursor, caller, pending, tweets, history, stream >>

\* An open connection delivers a chunk to its 'data' handler.
readableData ==
  /\ nChunks < MaxChunks
  /\ nChunks' = nChunks + 1
  /\ \E kind \in StreamKinds, chunk \in Chunks :
       LET out == onData(kind, chunk) IN
       /\ open[kind] > 0
       /\ tweets' = tweets \cup out.added
       /\ log' = log \o [ i \in 1..Len(out.emitted) |->
                            Entry(IF kind = "filtered" THEN "FILTERED_TWEET_CREATE"
                                  ELSE "SAMPLED_TWEET_CREATE",
                                  out.emitted[i], 0, Null, Null, Null) ]
  /\ UNCHANGED << token, credentials, readyAt, me, clientEvents, calls, connecting, open >>
  /\ UNCHANGED << options, cursor, caller, pending, history, stream >>

\* A client with any options.events, and a book that is not used.
InitClient ==
  /\ InitBook
  /\ afterTweetId = Null /\ beforeTweetId = Null /\ maxResultsPerPage = Null
  /\ startTimestamp = Null /\ endTimestamp = Null
  /\ caller = "awaits"
  /\ NoStream
  /\ ClientConstructor(SUBSET Categories)

NextClient ==
  \/ loginWithBearerToken
  \/ login
  \/ fetchClientUserResolve
  \/ fetchClientUserReject
  \/ connectToStreamReject
  \/ connectToStreamResolve
  \/ readableData

SpecClient == InitClient /\ [][NextClient]_vars

\* ------------------------------------------------------------ properties
TailError(result) ==
  result.kind = "error" /\ result.error = "PAGINATED_RESPONSE_TAIL_REACHED"
Last(seq) == seq[Len(seq)]
IsSuffix(s, t) == Len(s) <= Len(t) /\ SubSeq(t, Len(t) - Len(s) + 1, Len(t)) = s

\* C1: with awaited calls, once the transport call of a fetchNextPage has
\* resolved with a response that carries no next_token, the next fetchNextPage
\* call throws PAGINATED_RESPONSE_TAIL_REACHED and issues no request.
C1_TailAfterLastPage ==
  [][ ( /\ answered # << >>
        /\ Last(answered)[2] = Undefined
        /\ pending = << >>
        /\ nCalls' = nCalls + 1 )
      => ( /\ TailError(lastResult')
           /\ pending' = << >>
           /\ sentTokens' = sentTokens ) ]_vars

\* A call has thrown PAGINATED_RESPONSE_TAIL_REACHED right after a page without
\* next_token was returned.
C1_Witness ==
  /\ nTail = 1
  /\ TailError(lastResult)
  /\ answered # << >>
  /\ Last(answered)[2] = Undefined
  /\ Len(sentTokens) = 2

\* C2: a fetchNextPage call that fails leaves the cursor (the initial-request
\* flag, the stored token and hasMore) as it was before the call.
C2_FailedCallKeepsCursor ==
  lastResult.kind = "error" => Cursor = lastResult.before

\* C3: with awaited calls, once a call has thrown
\* PAGINATED_RESPONSE_TAIL_REACHED, every later call throws it too, returns no
\* page, issues no request, and token and hasMore stay as they are.
C3_ExhaustedAbsorbing ==
  [][ nTail > 0
      => ( /\ nextToken' = nextToken
           /\ hasMore' = hasMore
           /\ pending' = << >>
           /\ sentTokens' = sentTokens
           /\ lastResult'.kind # "page"
           /\ (nCalls' # nCalls => TailError(lastResult') /\ nTail' = nTail + 1) ) ]_vars

\* Two calls in a row have thrown PAGINATED_RESPONSE_TAIL_REACHED.
C3_Witness ==
  /\ nTail >= 2
  /\ TailError(lastResult)
  /\ pending = << >>

\* C4: after a call has returned its page, the stored token is the next_token
\* of that response and hasMore is TRUE exactly when the response carries one.
C4_CursorFollowsResponse ==
  lastResult.kind = "page"
  => ( /\ nextToken = lastResult.response[1].meta.next_token
       /\ hasMore = (lastResult.response[1].meta.next_token # Undefined) )

\* A second page, with tweets and a next_token, has been returned after a first
\* one: hasMore is TRUE and the token of the second page is stored.
C4_Witness ==
  /\ lastResult.kind = "page"
  /\ Len(lastResult.page) = 2
  /\ Len(answered) = 2
  /\ Last(answered)[2] = Some("t2")
  /\ nextToken = Some("t2")
  /\ hasMore

\* C5: a response whose result_count is 0 makes the call return an empty
\* collection, with the cursor taken from the response: its next_token is
\* stored, and hasMore is FALSE in that same state when it carries none.
C5_EmptyPageUpdatesCursor ==
  ( /\ lastResult.response # << >>
    /\ lastResult.response[1].meta.result_count = 0 )
  => ( /\ lastResult.kind = "page"
       /\ lastResult.page = << >>
       /\ nextToken = lastResult.response[1].meta.next_token
       /\ hasMore = (lastResult.response[1].meta.next_token # Undefined) )

\* An empty page without next_token has been returned to a book that held a
\* token: the book is exhausted in the state the call returns in.
C5_Witness ==
  /\ lastResult.kind = "page"
  /\ lastResult.response[1].meta.result_count = 0
  /\ lastResult.response[1].meta.next_token = Undefined
  /\ lastResult.before.nextToken = Some("t1")
  /\ nextToken = Undefined
  /\ ~hasMore

\* C6, as stated: for awaited calls the tokens sent are the tokens received
\* shifted by one: the first request carries none, and request i + 1 carries
\* the token of response i, no token being sent twice.
C6_SentIsReceivedShifted ==
  \A i \in 1..Len(sentTokens) :
    IF i = 1 THEN sentTokens[i] = Undefined
    ELSE i - 1 <= Len(answered) /\ sentTokens[i] = answered[i - 1][2]

\* C6, amended: for awaited calls the first request carries no next_token and
\* every later request carries the next_token of the latest resolved response;
\* the tokens sent by the requests that resolved are the tokens received
\* shifted by one. (A request that rejects leaves the token stored, and the
\* next request sends it again.)
C6_TokenChain ==
  /\ sentTokens # << >> => sentTokens[1] = Undefined
  /\ \A i \in 1..Len(pending) :
       /\ pending[i].request.next_token = Last(sentTokens)
       /\ IF Len(sentTokens) = 1 THEN pending[i].request.next_token = Undefined
          ELSE /\ answered # << >>
               /\ pending[i].request.next_token = Last(answered)[2]
               /\ pending[i].request.next_token # Undefined
  /\ \A i \in 1..Len(answered) :
       answered[i][1] = (IF i = 1 THEN Undefined ELSE answered[i - 1][2])

\* The third request is pending after the first resolved and the second
\* rejected: it carries the token of the first response again.
C6_Witness ==
  /\ Len(sentTokens) = 3
  /\ Len(answered) = 1
  /\ Len(pending) = 1
  /\ pending[1].request.next_token = Some("t1")
  /\ sentTokens[2] = Some("t1")

\* C7: every request carries each range bound the book was constructed with
\* that is not null (since_id, until_id, max_results, start_time and end_time
\* in ISO form) and the query.
C7_RequestCarriesEveryBound ==
  \A i \in 1..Len(pending) :
    LET q == pending[i].request IN
    /\ q.query = query
    /\ afterTweetId # Null => q.since_id = afterTweetId
    /\ beforeTweetId # Null => q.until_id = beforeTweetId
    /\ maxResultsPerPage # Null => q.max_results = maxResultsPerPage
    /\ startTimestamp # Null => q.start_time = Some(toISOString(startTimestamp[1]))
    /\ endTimestamp # Null => q.end_time = Some(toISOString(endTimestamp[1]))

\* C8: whatever the chunks the transport cuts the text into, the events
\* emitted once the text is delivered are those of its lines, one handled
\* after the other.
C8_ChunkingIndependent ==
  pos = Len(body) => events = EventsByLine(streamKind, LinesOf(body, << >>))

\* C9: a line that fails JSON decoding (a blank line included) emits no event
\* and does not end the consumer: the records of the lines after it are all
\* delivered as events.
C9_LaterRecordsDelivered ==
  pos = Len(body)
  => LET lines == LinesOf(body, << >>) IN
     \A i \in 1..Len(lines) :
       ~JSONParse(lines[i]).ok
       => IsSuffix(EventsByLine(streamKind, SubSeq(lines, i + 1, Len(lines))), events)

\* C10: a response without data whose result_count is not 0 makes the call
\* fail with an error; no collection is returned for it.
C10_MissingDataFails ==
  ( /\ lastResult.response # << >>
    /\ lastResult.response[1].data = Undefined
    /\ lastResult.response[1].meta.result_count # 0 )
  => lastResult.kind = "error"

\* A call has failed on a response that has a next_token and a result_count
\* of 1 but no data.
C10_Witness ==
  /\ lastResult.kind = "error"
  /\ lastResult.error = "TypeError"
  /\ lastResult.response # << >>
  /\ lastResult.response[1].data = Undefined
  /\ lastResult.response[1].meta.result_count = 1
  /\ lastResult.response[1].meta.next_token = Some("t1")

\* The place of the first raw tweet of data whose id is id.
FirstIndex(data, id) == CHOOSE i \in 1..Len(data) :
  data[i] = id /\ \A j \in 1..(i - 1) : data[j] # id

\* C11: the collection returned for a page with result_count > 0 has exactly
\* one entry per distinct tweet id of the response's data, in the order in
\* which the ids first appear in the response.
C11_PageIsDistinctIdsInOrder ==
  ( /\ lastResult.kind = "page"
    /\ lastResult.response[1].meta.result_count > 0 )
  => LET data == lastResult.response[1].data[1]
         page == lastResult.page
     IN  /\ { page[i] : i \in 1..Len(page) } = { data[i] : i \in 1..Len(data) }
         /\ \A i, j \in 1..Len(page) : i < j => page[i] # page[j]
         /\ \A i, j \in 1..Len(page) :
              i < j => FirstIndex(data, page[i]) < FirstIndex(data, page[j])

\* A page of four raw tweets with three distinct ids, one of them repeated,
\* has been returned as a collection of three entries.
C11_Witness ==
  /\ lastResult.kind = "page"
  /\ lastResult.response # << >>
  /\ lastResult.response[1].data = Some(<< "3", "1", "3", "2" >>)
  /\ lastResult.page = << "3", "1", "2" >>

\* C12: createBook validates the options, so that no book issues a request
\* whose query is undefined.
C12_NoRequestWithoutQuery ==
  \A i \in 1..Len(pending) : pending[i].request.query # Undefined

\* C16: when a fetchNextPage call is made while the request of another call,
\* made in a cursor state that is not Exhausted, awaits its response and no
\* response has arrived in between, the new call issues a request too, and
\* both requests carry the token that was stored before either call; the
\* stored token changes only when a response arrives.
C16_OverlappingCallsSendSameToken ==
  [][ /\ \A i \in 1..Len(pending) :
           ( /\ pending[i].before.hasMore
             /\ pending[i].seen = Len(answered)
             /\ nCalls' = nCalls + 1 )
           => ( /\ Len(pending') = Len(pending) + 1
                /\ pending[i].request.next_token = pending[i].before.nextToken
                /\ Last(pending').request.next_token = pending[i].request.next_token )
      /\ (nextToken' # nextToken => Len(answered') = Len(answered) + 1) ]_vars

\* C17: under every interleaving, once a response has left the book with the
\* initial request made, no token and hasMore = FALSE, no later step sets a
\* token or turns hasMore back to TRUE.
C17_ExhaustedTerminalOverlapping ==
  [][ ( /\ hasMadeInitialRequest
        /\ ~TruthyStr(nextToken)
        /\ ~hasMore )
      => ( /\ nextToken' = nextToken
           /\ hasMore' = hasMore ) ]_vars

\* C19: in both stream consumers the tweet of a record is in the tweet cache
\* exactly when an event has been emitted for that record.
C19_CachedIffEmitted ==
  tweets = { events[i] : i \in 1..Len(events) }

\* C20: a new book has hasMore = TRUE and no token, its first fetchNextPage
\* issues a request and does not throw PAGINATED_RESPONSE_TAIL_REACHED, and
\* with awaited calls that error is thrown only when hasMore is FALSE.
C20_TailOnlyWhenNoMore ==
  /\ nCalls = 0 => (hasMore /\ nextToken = Undefined)
  /\ nCalls = 1 => (~TailError(lastResult) /\ Len(sentTokens) = 1)
  /\ TailError(lastResult) => ~hasMore

\* The entries of the log of the given type that belong to the login call.
EntriesOf(type, call) ==
  { i \in 1..Len(log) : log[i].type = type /\ log[i].call = call }

\* C13: a login call that has failed (users.me rejected or resolved no user,
\* or the credentials were no object) has left token, credentials, readyAt
\* and me as they were before the call, has emitted no ready event and has
\* issued no stream request.
C13_FailedLoginChangesNothing ==
  ( /\ calls # << >>
    /\ Last(calls).method = "login"
    /\ Last(calls).result \notin {"ok", "pending"} )
  => ( /\ Fields = Last(calls).before
       /\ EntriesOf("ready", Len(calls)) = {}
       /\ EntriesOf("connect", Len(calls)) = {} )

\* C14: over any sequence of login calls, a stream request of a kind is issued
\* and a connection of that kind is open only if its category is in
\* options.events, and at most one request of each kind is ever issued, so
\* that at most one connection of each kind is open.
C14_AtMostOneConsumerPerKind ==
  \A kind \in StreamKinds :
    LET category == IF kind = "filtered" THEN "FILTERED_TWEET_CREATE"
                    ELSE "SAMPLED_TWEET_CREATE"
        started == { i \in 1..Len(log) : log[i].type = "connect" /\ log[i].detail = kind }
    IN  /\ (started # {} \/ connecting[kind] > 0 \/ open[kind] > 0)
             => category \in clientEvents
        /\ Cardinality(started) <= 1
        /\ open[kind] <= 1

\* C15: a loginWithBearerToken call whose argument is not a string throws
\* INVALID_TYPE and leaves token and readyAt as they were; it emits no event,
\* issues no stream request and opens no connection.
C15_NonStringTokenFailsEagerly ==
  [][ ( /\ Len(calls') = Len(calls) + 1
        /\ Last(calls').method = "loginWithBearerToken"
        /\ typeof(Last(calls').arg) # "string" )
      => ( /\ Last(calls').result = "INVALID_TYPE"
           /\ token' = token
           /\ readyAt' = readyAt
           /\ log' = log
           /\ connecting' = connecting
           /\ open' = open ) ]_vars

\* A loginWithBearerToken call with a number has failed on a client that an
\* earlier call had logged in, and token and readyAt are still those of the
\* earlier call.
C15_Witness ==
  /\ Len(calls) = 2
  /\ calls[1].result = "ok"
  /\ calls[2].method = "loginWithBearerToken"
  /\ calls[2].arg = << "number", "42" >>
  /\ calls[2].result = "INVALID_TYPE"
  /\ token = Some("tokA")
  /\ readyAt = Some(1)

\* C18: every login call that has returned has emitted ready exactly once and
\* a call that has not returned has not emitted it; the client a ready event
\* hands over has the token and the readyAt of its call and, for login, the
\* user; the stream requests of a call are issued after its ready event; and
\* a tweet event, a stream request or an open connection exists only after a
\* ready event.
C18_ReadyOnceBeforeStreams ==
  /\ \A c \in 1..Len(calls) :
       Cardinality(EntriesOf("ready", c)) = (IF calls[c].result = "ok" THEN 1 ELSE 0)
  /\ \A i \in 1..Len(log) :
       log[i].type = "ready"
       => ( /\ log[i].readyAt = Some(log[i].call)
            /\ log[i].token =
                 Some(IF calls[log[i].call].method = "login"
                      THEN bearerToken(calls[log[i].call].arg[2])
                      ELSE calls[log[i].call].arg[2])
            /\ (calls[log[i].call].method = "login" => log[i].me # Null) )
  /\ \A i \in 1..Len(log) :
       log[i].type = "connect"
       => \E j \in 1..(i - 1) : log[j].type = "ready" /\ log[j].call = log[i].call
  /\ \A i \in 1..Len(log) :
       log[i].type \in Categories => \E j \in 1..(i - 1) : log[j].type = "ready"
  /\ (\E kind \in StreamKinds : connecting[kind] > 0 \/ open[kind] > 0)
       => \E j \in 1..Len(log) : log[j].type = "ready"

\* A login has emitted ready with the user resolved, then issued the request
\* of the filtered stream, and a tweet event of that stream has followed.
C18_Witness ==
  /\ calls # << >>
  /\ calls[1].method = "login"
  /\ calls[1].result = "ok"
  /\ Len(log) >= 3
  /\ log[1].type = "ready" /\ log[1].me = Some("u1")
  /\ log[2].type = "connect" /\ log[2].detail = "filtered"
  /\ log[Len(log)].type = "FILTERED_TWEET_CREATE"

====
